---- MODULE Spec2Model ----
(***************************************************************************)
(* Model of the quote subsystem of quilld (src/quote/quote.js):            *)
(* QuoteValidator (rules, report, sanitizer), QuoteBlot.create and         *)
(* QuoteManager.insertQuote over an editor document; and of the QuillM     *)
(* aggregator (src/quillm/quillm.js): mergeConfig, createEditor,           *)
(* createSimpleEditor, registerExtension and the editor's importContent.   *)
(*                                                                         *)
(* Text is a sequence of one-character strings.  A markup string is a      *)
(* sequence of tokens (start tag, end tag, character data); the DOM is a   *)
(* forest of nodes.  Parse is the fragment parser behind the innerHTML     *)
(* setter, Serialize the innerHTML getter.                                 *)
(***************************************************************************)
EXTENDS Integers, Sequences, FiniteSets, TLC

VARIABLES
    richText,     \* the value handed to the validator / sanitizer
    pc,           \* position of the validator pipeline
    valid,        \* result of isValidQuoteContent(richText)
    report,       \* result of getValidationDetails(richText)
    sanitized,    \* result of sanitizeQuoteContent(richText)
    revalid,      \* result of isValidQuoteContent(sanitized)
    resanitized,  \* result of sanitizeQuoteContent(sanitized)
    blot,         \* QuoteBlot.create: the value given and the node built
    doc,          \* the editor's document: its blocks, each of length 1
    selection,    \* <<>> when getSelection() is null, else <<index>>
    call,         \* the last insertQuote call: arguments, document and selection at entry
    ret,          \* what the last insertQuote call returned
    toast,        \* the last toast shown
    calls,        \* the editor methods the last insertQuote call invoked
    op,           \* the handler that ran last
    defaultConfig,  \* QuillM: this.defaultConfig
    extensions,   \* QuillM: this.extensions, extension name -> extension
    request,      \* the last QuillM or editor method called, with its argument
    finalConfig,  \* the configuration the last create call handed to Quill
    managers,     \* the managers of the editor created last, name -> manager
    body,         \* the content of the editor created last: the setter that wrote it and the value
    paste,        \* the last paste event and what the paste handler did with it
    dialogs,      \* the quote dialogs in document.body, oldest first: the content each holds
    focus,        \* where the keyboard focus is: the editor, a dialog or elsewhere
    handler,      \* how the quote button of the toolbar is wired up
    wordCounts,   \* QuillD: the .quilld-word-count children of the parent element,
                  \* in document order, each named by the editor it belongs to
    quills        \* QuillD: editor -> "none", "counted", "plain" or "destroyed"

pipeVars == <<richText, pc, valid, report, sanitized, revalid, resanitized, blot>>

editorVars == <<doc, selection, call, ret, toast, calls, op>>

managerVars == <<defaultConfig, extensions, request, finalConfig, managers, body>>

uiVars == <<paste, dialogs, focus, handler>>

quilldVars == <<wordCounts, quills>>

vars == <<pipeVars, editorVars, managerVars, uiVars, quilldVars>>

----------------------------------------------------------------------------
(* Bounds *)

MaxTextLen == 4
MaxNodes == 3
MaxDoc == 3
MaxEditors == 3

MaxDialogs == 2

----------------------------------------------------------------------------
(* Characters and strings *)

\* \s of the regular expressions, restricted to the modelled alphabet
WS == {" ", "\n"}

Chars == {">", " ", "\n", "x"}

Q_quote == <<"q", "u", "o", "t", "e">>
Q_quotation == <<"q", "u", "o", "t", "a", "t", "i", "o", "n">>
Q_quote_block == <<"q", "u", "o", "t", "e", "-", "b", "l", "o", "c", "k">>
Q_ql_quote_block == <<"q", "l", "-">> \o Q_quote_block

RECURSIVE SeqsUpTo(_, _)
SeqsUpTo(S, n) ==
    IF n = 0 THEN {<<>>}
    ELSE LET shorter == SeqsUpTo(S, n - 1)
         IN  shorter \cup {Append(s, c) : s \in {t \in shorter : Len(t) = n - 1}, c \in S}

\* s[from..] starts with pre
StartsWithAt(s, from, pre) ==
    /\ from + Len(pre) - 1 <= Len(s)
    /\ \A k \in 1..Len(pre) : s[from + k - 1] = pre[k]

\* String.prototype.includes
Includes(s, sub) == \E from \in 1..(Len(s) + 1) : StartsWithAt(s, from, sub)

\* String.prototype.toLowerCase on the letters of the alphabet
LowerChar(c) ==
    CASE c = "Q" -> "q" [] c = "U" -> "u" [] c = "O" -> "o"
      [] c = "T" -> "t" [] c = "E" -> "e" [] OTHER -> c

ToLowerCase(s) == [k \in 1..Len(s) |-> LowerChar(s[k])]

RECURSIVE TrimStart(_)
TrimStart(s) ==
    IF s # <<>> /\ Head(s) \in WS THEN TrimStart(Tail(s)) ELSE s

RECURSIVE TrimEnd(_)
TrimEnd(s) ==
    IF s # <<>> /\ s[Len(s)] \in WS THEN TrimEnd(SubSeq(s, 1, Len(s) - 1)) ELSE s

\* String.prototype.trim
Trim(s) == TrimEnd(TrimStart(s))

\* String.prototype.split(sep) for a one-character separator
RECURSIVE SplitFrom(_, _, _, _)
SplitFrom(s, sep, i, cur) ==
    IF i > Len(s) THEN <<cur>>
    ELSE IF s[i] = sep THEN <<cur>> \o SplitFrom(s, sep, i + 1, <<>>)
    ELSE SplitFrom(s, sep, i + 1, Append(cur, s[i]))

Split(s, sep) == SplitFrom(s, sep, 1, <<>>)

\* DOMTokenList of a class attribute: split on whitespace, no empty tokens
ClassTokens(cls) == {t \in {Split(cls, " ")[k] : k \in 1..Len(Split(cls, " "))} : t # <<>>}

----------------------------------------------------------------------------
(* DOM nodes and markup tokens *)

TextNode(s) == [k |-> "text", tag |-> "", cls |-> <<>>, attrs |-> {}, kids |-> <<>>, s |-> s]

Element(tag, cls, attrs, kids) ==
    [k |-> "elem", tag |-> tag, cls |-> cls, attrs |-> attrs, kids |-> kids, s |-> <<>>]

Attr(n, v) == [n |-> n, v |-> v]

StartTag(tag, cls, attrs) == [k |-> "open", tag |-> tag, cls |-> cls, attrs |-> attrs, s |-> <<>>]

EndTag(tag) == [k |-> "close", tag |-> tag, cls |-> <<>>, attrs |-> {}, s |-> <<>>]

CharData(s) == [k |-> "text", tag |-> "", cls |-> <<>>, attrs |-> {}, s |-> s]

\* Concatenation of markup: adjacent character data is one run of characters
Concat(a, b) ==
    IF a # <<>> /\ b # <<>> /\ a[Len(a)].k = "text" /\ b[1].k = "text"
    THEN SubSeq(a, 1, Len(a) - 1) \o <<CharData(a[Len(a)].s \o b[1].s)>> \o Tail(b)
    ELSE a \o b

\* The innerHTML getter: markup of a list of child nodes
RECURSIVE Serialize(_)
Serialize(kids) ==
    IF kids = <<>> THEN <<>>
    ELSE LET n == Head(kids)
             first == IF n.k = "text"
                      THEN (IF n.s = <<>> THEN <<>> ELSE <<CharData(n.s)>>)
                      ELSE <<StartTag(n.tag, n.cls, n.attrs)>>
                               \o Serialize(n.kids) \o <<EndTag(n.tag)>>
         IN  Concat(first, Serialize(Tail(kids)))

\* Elements whose start tag closes an open p element
ClosesP == {"div", "p", "blockquote"}

\* The "special" category of the tree builder, within the modelled tags
Special == {"div", "p", "blockquote", "#root"}

Frame(tag, cls, attrs) == [tag |-> tag, cls |-> cls, attrs |-> attrs, kids |-> <<>>]

\* Insert a character run into the current node; runs next to a text node merge
AppendText(kids, s) ==
    IF s = <<>> THEN kids
    ELSE IF kids # <<>> /\ kids[Len(kids)].k = "text"
    THEN SubSeq(kids, 1, Len(kids) - 1) \o <<TextNode(kids[Len(kids)].s \o s)>>
    ELSE Append(kids, TextNode(s))

\* Pop the current node off the stack of open elements
Pop(stack) ==
    LET n == Len(stack)
        top == stack[n]
        el == Element(top.tag, top.cls, top.attrs, top.kids)
    IN  [SubSeq(stack, 1, n - 1) EXCEPT ![n - 1].kids = Append(@, el)]

RECURSIVE PopUntil(_, _)
PopUntil(stack, tag) ==
    IF stack[Len(stack)].tag = tag THEN Pop(stack) ELSE PopUntil(Pop(stack), tag)

InStack(stack, tag) == \E j \in 2..Len(stack) : stack[j].tag = tag

\* "Any other end tag": the nearest open element of that name, unless a special
\* element is met first
RECURSIVE OtherEndTag(_, _, _)
OtherEndTag(stack, tag, j) ==
    IF stack[j].tag = tag THEN PopUntil(stack, tag)
    ELSE IF stack[j].tag \in Special THEN stack
    ELSE OtherEndTag(stack, tag, j - 1)

RECURSIVE CloseAll(_)
CloseAll(stack) == IF Len(stack) = 1 THEN stack[1].kids ELSE CloseAll(Pop(stack))

RECURSIVE TreeBuild(_, _, _)
TreeBuild(toks, i, stack) ==
    IF i > Len(toks) THEN CloseAll(stack)
    ELSE LET t == toks[i]
             n == Len(stack)
         IN  CASE t.k = "text" ->
                    TreeBuild(toks, i + 1, [stack EXCEPT ![n].kids = AppendText(@, t.s)])
               [] t.k = "open" ->
                    LET st == IF t.tag \in ClosesP /\ InStack(stack, "p")
                              THEN PopUntil(stack, "p") ELSE stack
                    IN  TreeBuild(toks, i + 1, Append(st, Frame(t.tag, t.cls, t.attrs)))
               [] t.k = "close" /\ t.tag = "p" ->
                    IF InStack(stack, "p")
                    THEN TreeBuild(toks, i + 1, PopUntil(stack, "p"))
                    ELSE TreeBuild(toks, i + 1, Pop(Append(stack, Frame("p", <<>>, {}))))
               [] t.k = "close" /\ t.tag \in Special \ {"p"} ->
                    IF InStack(stack, t.tag)
                    THEN TreeBuild(toks, i + 1, PopUntil(stack, t.tag))
                    ELSE TreeBuild(toks, i + 1, stack)
               [] OTHER ->
                    TreeBuild(toks, i + 1, OtherEndTag(stack, t.tag, n))

\* The innerHTML setter: the child nodes the fragment parser builds from markup
Parse(markup) == TreeBuild(markup, 1, <<Frame("#root", <<>>, {})>>)

----------------------------------------------------------------------------
(* JavaScript values handed to the validator *)

JsString(markup) == [t |-> "string", v |-> markup]

JsNull == [t |-> "null", v |-> <<>>]

JsUndefined == [t |-> "undefined", v |-> <<>>]

JsNumber == [t |-> "number", v |-> <<>>]

JsObject == [t |-> "object", v |-> <<>>]

\* !richText || typeof richText !== 'string'
NotAString(x) == x.t # "string" \/ x.v = <<>>

----------------------------------------------------------------------------
(* DOM queries *)

\* querySelectorAll('*'): the descendant elements in document order
RECURSIVE Descendants(_)
Descendants(kids) ==
    IF kids = <<>> THEN <<>>
    ELSE LET n == Head(kids)
         IN  (IF n.k = "elem" THEN <<n>> \o Descendants(n.kids) ELSE <<>>)
                 \o Descendants(Tail(kids))

\* The elements a selector is matched against
ElementsOf(kids) == {Descendants(kids)[j] : j \in 1..Len(Descendants(kids))}

\* Node.textContent of a container
RECURSIVE TextContent(_)
TextContent(kids) ==
    IF kids = <<>> THEN <<>>
    ELSE LET n == Head(kids)
         IN  (IF n.k = "text" THEN n.s ELSE TextContent(n.kids)) \o TextContent(Tail(kids))

quoteSelectors == {Q_ql_quote_block, Q_quote_block, Q_quote, Q_quotation}

\* .ql-quote-block, .quote-block, .quote, .quotation
IsQuoteBlock(el) == ClassTokens(el.cls) \cap quoteSelectors # {}

IsBlockquote(el) == el.tag = "blockquote"

\* [data-quote], [data-quotation], [data-cite]
dataAttributes == {"data-quote", "data-quotation", "data-cite"}

HasDataAttribute(el) == \E a \in el.attrs : a.n \in dataAttributes

\* the selectors of hasQuoteAttributes
HasQuoteAttribute(el) ==
    \/ HasDataAttribute(el)
    \/ Attr("role", "blockquote") \in el.attrs

----------------------------------------------------------------------------
(* QuoteValidator: the rules *)

hasQuoteBlocks(container) == \E el \in ElementsOf(container) : IsQuoteBlock(el)

hasBlockquotes(container) == \E el \in ElementsOf(container) : IsBlockquote(el)

\* Variant: the class name must be the word quote itself
HasQuoteInClassNameExact(el) == ToLowerCase(el.cls) = Q_quote

HasQuoteInClassName(el) == Includes(ToLowerCase(el.cls), Q_quote)

hasQuoteClasses(container) == \E el \in ElementsOf(container) : HasQuoteInClassName(el)

hasQuoteAttributes(container) ==
    \E el \in ElementsOf(container) : HasQuoteAttribute(el)

\* /^\s*>\s/.test(line)
MarkerTest(line) ==
    \E j \in 1..Len(line) :
        /\ \A i \in 1..(j - 1) : line[i] \in WS
        /\ line[j] = ">"
        /\ j + 1 <= Len(line)
        /\ line[j + 1] \in WS

hasQuoteMarkers(container) ==
    LET lines == Split(TextContent(container), "\n")
    IN  \E j \in 1..Len(lines) : MarkerTest(Trim(lines[j]))

\* Variant: the boolean validator stops before the attribute rule
isValidQuoteContentNoAttributes(x) ==
    IF NotAString(x) THEN TRUE
    ELSE LET temp == Parse(x.v)
         IN  /\ ~hasQuoteBlocks(temp)
             /\ ~hasBlockquotes(temp)
             /\ ~hasQuoteMarkers(temp)
             /\ ~hasQuoteClasses(temp)

isValidQuoteContent(x) ==
    IF NotAString(x) THEN TRUE
    ELSE LET temp == Parse(x.v)
         IN  /\ ~hasQuoteBlocks(temp)
             /\ ~hasBlockquotes(temp)
             /\ ~hasQuoteMarkers(temp)
             /\ ~hasQuoteClasses(temp)
             /\ ~hasQuoteAttributes(temp)

R_blocks == "Contains quote block elements"
R_blockquotes == "Contains HTML blockquote elements"
R_markers == "Contains quote markers (lines starting with >)"
R_classes == "Contains elements with quote-related CSS classes"
R_attributes == "Contains elements with quote-related attributes"

PushIf(reasons, cond, text) == IF cond THEN Append(reasons, text) ELSE reasons

\* Variant: the class rule is left out of the report
getValidationDetailsNoClasses(x) ==
    IF NotAString(x) THEN [isValid |-> TRUE, reasons |-> <<>>]
    ELSE LET temp == Parse(x.v)
             r1 == PushIf(<<>>, hasQuoteBlocks(temp), R_blocks)
             r2 == PushIf(r1, hasBlockquotes(temp), R_blockquotes)
             r3 == PushIf(r2, hasQuoteMarkers(temp), R_markers)
             r5 == PushIf(r3, hasQuoteAttributes(temp), R_attributes)
         IN  [isValid |-> Len(r5) = 0, reasons |-> r5]

\* Variant: the blockquote rule is reported before the quote-container rule
getValidationDetailsBlockquotesFirst(x) ==
    IF NotAString(x) THEN [isValid |-> TRUE, reasons |-> <<>>]
    ELSE LET temp == Parse(x.v)
             r1 == PushIf(<<>>, hasBlockquotes(temp), R_blockquotes)
             r2 == PushIf(r1, hasQuoteBlocks(temp), R_blocks)
             r3 == PushIf(r2, hasQuoteMarkers(temp), R_markers)
             r4 == PushIf(r3, hasQuoteClasses(temp), R_classes)
             r5 == PushIf(r4, hasQuoteAttributes(temp), R_attributes)
         IN  [isValid |-> Len(r5) = 0, reasons |-> r5]

getValidationDetails(x) ==
    IF NotAString(x) THEN [isValid |-> TRUE, reasons |-> <<>>]
    ELSE LET temp == Parse(x.v)
             r1 == PushIf(<<>>, hasQuoteBlocks(temp), R_blocks)
             r2 == PushIf(r1, hasBlockquotes(temp), R_blockquotes)
             r3 == PushIf(r2, hasQuoteMarkers(temp), R_markers)
             r4 == PushIf(r3, hasQuoteClasses(temp), R_classes)
             r5 == PushIf(r4, hasQuoteAttributes(temp), R_attributes)
         IN  [isValid |-> Len(r5) = 0, reasons |-> r5]

----------------------------------------------------------------------------
(* QuoteValidator: the sanitizer *)

\* Variant: only the children of the container are looked at
RemoveQuoteBlocksTopLevel(kids) ==
    SelectSeq(kids, LAMBDA n : n.k = "text" \/ ~IsQuoteBlock(n))

\* querySelectorAll(quote selectors).forEach(el => el.remove()): every matched
\* element leaves the tree with its subtree
RECURSIVE RemoveQuoteBlocks(_)
RemoveQuoteBlocks(kids) ==
    IF kids = <<>> THEN <<>>
    ELSE LET n == Head(kids)
             rest == RemoveQuoteBlocks(Tail(kids))
         IN  IF n.k = "text" THEN <<n>> \o rest
             ELSE IF IsQuoteBlock(n) THEN rest
             ELSE <<[n EXCEPT !.kids = RemoveQuoteBlocks(n.kids)]>> \o rest

\* querySelectorAll('blockquote').forEach(replace by p): the list is static and in
\* document order.  An outer blockquote is replaced first; its p receives freshly
\* parsed copies of the children (p.innerHTML = blockquote.innerHTML), so the
\* blockquotes of the list that were inside it are by then in the detached old
\* subtree, and replacing them there does not change the container.
RECURSIVE ConvertBlockquotes(_)
ConvertBlockquotes(kids) ==
    IF kids = <<>> THEN <<>>
    ELSE LET n == Head(kids)
             rest == ConvertBlockquotes(Tail(kids))
         IN  IF n.k = "text" THEN <<n>> \o rest
             ELSE IF IsBlockquote(n)
             THEN <<Element("p", <<>>, {}, Parse(Serialize(n.kids)))>> \o rest
             ELSE <<[n EXCEPT !.kids = ConvertBlockquotes(n.kids)]>> \o rest

\* querySelectorAll(data attributes).forEach(removeAttribute x 3)
RECURSIVE RemoveQuoteAttributes(_)
RemoveQuoteAttributes(kids) ==
    IF kids = <<>> THEN <<>>
    ELSE LET n == Head(kids)
             rest == RemoveQuoteAttributes(Tail(kids))
         IN  IF n.k = "text" THEN <<n>> \o rest
             ELSE <<[n EXCEPT !.attrs = IF HasDataAttribute(n)
                                        THEN {a \in @ : a.n \notin dataAttributes}
                                        ELSE @,
                              !.kids = RemoveQuoteAttributes(n.kids)]>> \o rest

\* The end of the match of \s* that starts at position i
RECURSIVE SkipWS(_, _)
SkipWS(s, i) == IF i <= Len(s) /\ s[i] \in WS THEN SkipWS(s, i + 1) ELSE i

\* s.replace(/^>\s*/gm, ''): ^ matches at the start and after a line terminator
RECURSIVE StripMarkers(_, _)
StripMarkers(s, i) ==
    IF i > Len(s) THEN <<>>
    ELSE IF s[i] = ">" /\ (i = 1 \/ s[i - 1] = "\n")
    THEN StripMarkers(s, SkipWS(s, i + 1))
    ELSE <<s[i]>> \o StripMarkers(s, i + 1)

\* getTextNodes(temp).forEach(node => node.textContent = ...replace(...))
RECURSIVE CleanTextNodes(_)
CleanTextNodes(kids) ==
    IF kids = <<>> THEN <<>>
    ELSE LET n == Head(kids)
             rest == CleanTextNodes(Tail(kids))
         IN  IF n.k = "text" THEN <<TextNode(StripMarkers(n.s, 1))>> \o rest
             ELSE <<[n EXCEPT !.kids = CleanTextNodes(n.kids)]>> \o rest

\* The class attribute is dropped from every element whose class name holds quote
RECURSIVE StripQuoteClasses(_)
StripQuoteClasses(kids) ==
    IF kids = <<>> THEN <<>>
    ELSE LET n == Head(kids)
             rest == StripQuoteClasses(Tail(kids))
         IN  IF n.k = "text" THEN <<n>> \o rest
             ELSE <<[n EXCEPT !.cls = IF HasQuoteInClassName(n) THEN <<>> ELSE @,
                              !.kids = StripQuoteClasses(n.kids)]>> \o rest

\* Variant: the sanitizer also strips the classes the class rule matches
sanitizeQuoteContentStrippingClasses(x) ==
    IF NotAString(x) THEN x
    ELSE LET temp == Parse(x.v)
             t1 == RemoveQuoteBlocks(temp)
             t2 == ConvertBlockquotes(t1)
             t3 == RemoveQuoteAttributes(t2)
             t4 == CleanTextNodes(t3)
         IN  JsString(Serialize(StripQuoteClasses(t4)))

\* Variant: an input that is no string comes back as the empty string
sanitizeQuoteContentCoercing(x) ==
    IF NotAString(x) THEN JsString(<<>>)
    ELSE LET temp == Parse(x.v)
             t1 == RemoveQuoteBlocks(temp)
             t2 == ConvertBlockquotes(t1)
             t3 == RemoveQuoteAttributes(t2)
             t4 == CleanTextNodes(t3)
         IN  JsString(Serialize(t4))

sanitizeQuoteContent(x) ==
    IF NotAString(x) THEN x
    ELSE LET temp == Parse(x.v)
             t1 == RemoveQuoteBlocks(temp)
             t2 == ConvertBlockquotes(t1)
             t3 == RemoveQuoteAttributes(t2)
             t4 == CleanTextNodes(t3)
         IN  JsString(Serialize(t4))

----------------------------------------------------------------------------
(* QuoteBlot.create *)

\* The string a value becomes when assigned to innerHTML
DomString(x) ==
    CASE x.t = "string" -> x.v
      [] x.t = "number" -> <<CharData(<<"7">>)>>
      [] OTHER -> <<CharData(<<"[", "o", "b", "j", "e", "c", "t", "]">>)>>

Truthy(x) == x.t \in {"number", "object"} \/ (x.t = "string" /\ x.v # <<>>)

\* value.content || '' and value.author || ''
OrEmpty(x) == IF Truthy(x) THEN x ELSE JsString(<<>>)

NonObject == [isObject |-> FALSE, content |-> JsUndefined, author |-> JsUndefined]

QuoteValue(content, author) == [isObject |-> TRUE, content |-> content, author |-> author]

\* Variant: the content is stored without the validation and sanitizing step
QuoteBlotCreateUnsanitized(value) ==
    LET v == IF ~value.isObject THEN QuoteValue(JsString(<<>>), JsString(<<>>)) ELSE value
    IN  [quoteText |-> Parse(DomString(OrEmpty(v.content))),
         quoteAuthor |-> OrEmpty(v.author).v]

\* The quote node: the children of .ql-quote-text and the text of .ql-quote-author
QuoteBlotCreate(value) ==
    LET v == IF ~value.isObject THEN QuoteValue(JsString(<<>>), JsString(<<>>)) ELSE value
        given == OrEmpty(v.content)
        content == IF ~isValidQuoteContent(given) THEN sanitizeQuoteContent(given) ELSE given
    IN  [quoteText |-> Parse(DomString(content)), quoteAuthor |-> OrEmpty(v.author).v]

----------------------------------------------------------------------------
(* Inputs *)

Q_my_quote_widget == <<"m", "y", "-">> \o Q_quote \o <<"-", "w", "i", "d", "g", "e", "t">>
Q_Quote_upper == <<"Q", "U", "O", "T", "E">>
Q_note == <<"n", "o", "t", "e">>

\* Start tags of the generated forests
Heads ==
    {StartTag(t, <<>>, {}) : t \in {"blockquote", "p"}}
        \cup {StartTag("div", Q_quotation, {}), StartTag("div", <<>>, {Attr("data-cite", "u")})}

\* Every class and attribute the rules and the sanitizer distinguish
AllHeads ==
    Heads
        \cup {StartTag("span", <<>>, {}), StartTag("div", <<>>, {})}
        \cup {StartTag("div", c, {}) :
                c \in {Q_quote, Q_quote_block, Q_ql_quote_block, Q_my_quote_widget,
                       Q_Quote_upper, Q_note, Q_note \o <<" ">> \o Q_quote}}
        \cup {StartTag("div", <<>>, {a}) :
                a \in {Attr("data-quote", ""), Attr("data-quotation", ""),
                       Attr("role", "blockquote"), Attr("role", "note")}}
        \cup {StartTag("blockquote", Q_quote, {Attr("data-cite", "u")})}

TreeTexts == {<<"x">>, <<">", " ", "x">>}

RECURSIVE ForestsOfSize(_, _, _)
RECURSIVE TreesOfSize(_, _, _)
ForestsOfSize(n, heads, texts) ==
    IF n = 0 THEN {<<>>}
    ELSE UNION {{<<t>> \o f : t \in TreesOfSize(j, heads, texts),
                              f \in ForestsOfSize(n - j, heads, texts)} : j \in 1..n}

TreesOfSize(n, heads, texts) ==
    (IF n = 1 THEN {TextNode(s) : s \in texts} ELSE {})
        \cup {Element(h.tag, h.cls, h.attrs, f) :
                h \in heads, f \in ForestsOfSize(n - 1, heads, texts)}

Forests ==
    UNION {ForestsOfSize(n, Heads, TreeTexts) : n \in 0..MaxNodes}
        \cup {<<Element(h.tag, h.cls, h.attrs, f)>> :
                h \in AllHeads, f \in {<<>>} \cup {<<TextNode(s)>> : s \in TreeTexts}}
        \cup {<<TextNode(s)>> : s \in SeqsUpTo(Chars, MaxTextLen) \ {<<>>}}

Markups == {Serialize(f) : f \in Forests}

NonStrings == {JsNull, JsUndefined, JsNumber, JsObject}

Inputs == {JsString(m) : m \in Markups} \cup NonStrings

Authors == {JsUndefined, [t |-> "string", v |-> <<"A">>]}

----------------------------------------------------------------------------
(* QuillM (src/quillm/quillm.js): configuration values                       *)
(*                                                                         *)
(* A configuration value is a record: t its type, v the text of its          *)
(* primitive value (of the items of an array), props its own properties,     *)
(* key -> value.                                                             *)

NoProps == [k \in {} |-> TRUE]

Str(s) == [t |-> "string", v |-> s, props |-> NoProps]

Num(n) == [t |-> "number", v |-> n, props |-> NoProps]

Bool(b) == [t |-> "boolean", v |-> b, props |-> NoProps]

Null == [t |-> "null", v |-> "", props |-> NoProps]

Undefined == [t |-> "undefined", v |-> "", props |-> NoProps]

Arr(items) == [t |-> "array", v |-> items, props |-> NoProps]

Obj(props) == [t |-> "object", v |-> "", props |-> props]

\* What a statement that throws a TypeError leaves in place of a value
Thrown == [t |-> "throw", v |-> "TypeError", props |-> NoProps]

\* ToBoolean
IsTruthy(x) ==
    CASE x.t = "string" -> x.v # ""
      [] x.t = "number" -> x.v # "0"
      [] x.t = "boolean" -> x.v = "true"
      [] x.t \in {"null", "undefined"} -> FALSE
      [] OTHER -> TRUE

\* typeof x === 'object' && !Array.isArray(x) && x !== null
IsPlainObject(x) == x.t = "object"

\* x[key]: own properties of objects and arrays, undefined otherwise
GetProp(x, key) == IF key \in DOMAIN x.props THEN x.props[key] ELSE Undefined

\* target[key] = value in strict mode (a class body): a TypeError on a primitive
SetProp(target, key, value) ==
    IF value.t = "throw" \/ target.t = "throw" THEN Thrown
    ELSE IF target.t \in {"object", "array"}
    THEN [target EXCEPT !.props = (key :> value) @@ @]
    ELSE Thrown

\* JSON.parse(JSON.stringify(x)): properties holding undefined are left out,
\* an array keeps its items and loses its own properties
RECURSIVE JsonClone(_)
JsonClone(x) ==
    CASE x.t = "object" ->
            Obj([k \in {j \in DOMAIN x.props : x.props[j].t # "undefined"} |->
                    JsonClone(x.props[k])])
      [] x.t = "array" -> Arr(x.v)
      [] OTHER -> x

\* The toolbar button groups
FullToolbar ==
    "[[{header:[1,2,3,false]}],[bold,italic,underline],[{list:ordered},{list:bullet}],[blockquote,link],[clean]]"

MinimalToolbar == "[[bold,italic,underline],[{list:ordered},{list:bullet}],[link,clean]]"

UserToolbar == "[[bold,italic],[link]]"

\* this.defaultConfig as the constructor sets it
DefaultConfig ==
    Obj("theme" :> Str("snow")
        @@ "modules" :> Obj("toolbar" :> Arr(FullToolbar)
                            @@ "history" :> Obj("delay" :> Num("1000")
                                               @@ "maxStack" :> Num("50")
                                               @@ "userOnly" :> Bool("true")))
        @@ "placeholder" :> Str("Start typing...")
        @@ "readOnly" :> Bool("false"))

\* mergeConfig(defaultConfig, userConfig); MergeKeys is its for-in loop over the
\* keys not yet visited
RECURSIVE mergeConfig(_, _)
RECURSIVE MergeKeys(_, _, _)
MergeKeys(merged, userConfig, keys) ==
    IF keys = {} \/ merged.t = "throw" THEN merged
    ELSE LET key == CHOOSE k \in keys : TRUE
             value == userConfig.props[key]
             old == GetProp(merged, key)
             next == IF IsPlainObject(value)
                     THEN SetProp(merged, key,
                                  mergeConfig(IF IsTruthy(old) THEN old ELSE Obj(NoProps),
                                              value))
                     ELSE SetProp(merged, key, value)
         IN  MergeKeys(next, userConfig, keys \ {key})

mergeConfig(defaults, userConfig) ==
    MergeKeys(JsonClone(defaults), userConfig, DOMAIN userConfig.props)

\* Variant: const merged = defaultConfig, so the writes land in the defaults
defaultsAfterMergeInPlace(defaults, userConfig) ==
    IF mergeConfig(defaults, userConfig).t = "throw" THEN defaults
    ELSE mergeConfig(defaults, userConfig)

\* The object passed as defaultConfig after mergeConfig ran: merged is a fresh
\* copy (line 240) and every write of the loop goes to merged
defaultsAfterMerge(defaults, userConfig) == defaults

\* The toolbar of createQuoteEditor
QuoteToolbar ==
    "[[{header:[1,2,3,false]}],[bold,italic,underline],[{list:ordered},{list:bullet}],[blockquote,quote],[link,clean]]"

\* createBubbleEditor: {theme: 'bubble', placeholder, ...config}
BubbleConfig(config) ==
    Obj(config.props
        @@ ("theme" :> Str("bubble") @@ "placeholder" :> Str("Click to start typing...")))

\* createViewer: its fixed configuration
ViewerConfig ==
    Obj("theme" :> Str("snow")
        @@ "modules" :> Obj("toolbar" :> Bool("false"))
        @@ "readOnly" :> Bool("true"))

\* createQuoteEditor: {modules: {toolbar}, ...config}
QuoteConfig(config) == Obj(config.props @@ ("modules" :> Obj("toolbar" :> Arr(QuoteToolbar))))

\* createSimpleEditor: {theme, modules: {toolbar}, placeholder, ...config}
SimpleConfig(config) ==
    Obj(config.props
        @@ ("theme" :> Str("snow")
            @@ "modules" :> Obj("toolbar" :> Arr(MinimalToolbar))
            @@ "placeholder" :> Str("Type here...")))

----------------------------------------------------------------------------
(* QuillM: extensions, managers and the enhanced editor *)

NoClass == "undefined"

\* An extension object: the classes under its keys manager and managerClass
Extension(manager, managerClass) == [manager |-> manager, managerClass |-> managerClass]

\* initializeExtensions: 'quote' is registered when QuoteManager is loaded
QuoteExtension == Extension(NoClass, "QuoteManager")

NoExtensions == [k \in {} |-> QuoteExtension]

\* initializeManagers(quill): name -> the class the manager is an instance of
initializeManagers(exts) ==
    IF "quote" \in DOMAIN exts /\ exts["quote"].managerClass # NoClass
    THEN "quote" :> exts["quote"].managerClass
    ELSE [k \in {} |-> NoClass]

\* quill.getManager(extensionName): managers[extensionName] || null
getManager(ms, extensionName) ==
    IF extensionName \in DOMAIN ms THEN ms[extensionName] ELSE "null"

\* A new editor holds no content; otherwise the setter that wrote it and the value
EmptyBody == [setter |-> "none", value |-> Undefined]

\* The argument of importContent: what it holds under delta, html and text
Content(delta, html, text) == [delta |-> delta, html |-> html, text |-> text]

\* quill.importContent(content) on an editor holding old
importContent(old, content) ==
    IF IsTruthy(content.delta) THEN [setter |-> "setContents", value |-> content.delta]
    ELSE IF IsTruthy(content.html) THEN [setter |-> "innerHTML", value |-> content.html]
    ELSE IF IsTruthy(content.text) THEN [setter |-> "setText", value |-> content.text]
    ELSE old

----------------------------------------------------------------------------
(* QuillM: the calls made in the model *)

ExtensionNames == {"quote", "myExtension"}

\* {manager: MyManager} as documented, {managerClass: MyManager} as the code reads it
UserExtensions == {Extension("MyManager", NoClass), Extension(NoClass, "MyManager")}

UserModules ==
    {Obj(NoProps),
     Obj("toolbar" :> Arr(UserToolbar)),
     Obj("toolbar" :> Obj("container" :> Str("#toolbar"))),
     Obj("history" :> Obj("delay" :> Num("2000"))),
     Obj("toolbar" :> Bool("false") @@ "syntax" :> Bool("true"))}

\* Each key is left out or given one of the listed values
OptionalKey(key, values) == {NoProps} \cup {key :> x : x \in values}

UserConfigs ==
    {Obj(th @@ ph @@ mo) :
        th \in OptionalKey("theme", {Obj("name" :> Str("bubble"))}),
        ph \in OptionalKey("placeholder", {Str("Custom placeholder")}),
        mo \in OptionalKey("modules", UserModules)}

\* The configurations handed to the other create methods
FewConfigs ==
    {Obj("placeholder" :> Str("Custom placeholder")),
     Obj("modules" :> Obj("history" :> Obj("delay" :> Num("2000"))))}

Delta == Obj("ops" :> Arr("[{insert:Hello}]"))

ImportContents ==
    {Content(d, h, x) :
        d \in {Undefined, Delta},
        h \in {Undefined, Str(""), Str("<p>Content</p>")},
        x \in {Undefined, Str(""), Str("Plain text")}}

\* The contents handed to createViewer
ViewerContents ==
    {Content(Undefined, Undefined, Undefined),
     Content(Delta, Str("<p>Content</p>"), Undefined),
     Content(Undefined, Str("<p>Content</p>"), Str("Plain text")),
     Content(Undefined, Str(""), Str("Plain text"))}

NoRequest == [method |-> "none", config |-> Undefined, content |-> Undefined]

\* No QuillM instance is in use
ManagerIdle ==
    /\ defaultConfig = Undefined
    /\ extensions = NoExtensions
    /\ request = NoRequest
    /\ finalConfig = Undefined
    /\ managers = NoExtensions
    /\ body = EmptyBody

----------------------------------------------------------------------------
(* Idle values of the pipeline: every function is applied to one input *)

None == [t |-> "none", v |-> <<>>]

NoReport == [isValid |-> FALSE, reasons |-> <<"none">>]

NoBlot == [value |-> [isObject |-> FALSE, content |-> None, author |-> None],
           quoteText |-> <<>>, quoteAuthor |-> <<"none">>]

----------------------------------------------------------------------------
(* The editor and QuoteManager.insertQuote *)

Line == [kind |-> "line", quoteText |-> <<>>, quoteAuthor |-> <<>>]

\* The block a quote embed becomes: QuoteBlot.create(value) with class ql-quote-block
QuoteBlock(value) ==
    LET node == QuoteBlotCreate(value)
    IN  [kind |-> "quote", quoteText |-> node.quoteText, quoteAuthor |-> node.quoteAuthor]

NoToast == [message |-> "", reasons |-> <<>>, type |-> "none"]

\* showToast(message, type); the reasons joined into the message are kept apart
showToast(message, reasons, type) == [message |-> message, reasons |-> reasons, type |-> type]

\* Variant: the reasons are not put into the message
showValidationErrorGeneric(reasons) ==
    showToast("Invalid quote content detected", <<>>, "warning")

showValidationError(reasons) ==
    IF Len(reasons) > 0
    THEN showToast("Cannot insert quote: ", reasons, "warning")
    ELSE showToast("Invalid quote content detected", <<>>, "warning")

\* quill.getLine(index): the block at the index, <<>> for none
getLine(d, index) == IF index + 1 \in 1..Len(d) THEN <<d[index + 1]>> ELSE <<>>

\* Variant: the line after the cursor is inspected
isInsideQuoteNextLine(d, index) ==
    LET block == getLine(d, index + 1)
    IN  block # <<>> /\ block[1].kind = "quote"

isInsideQuote(d, index) ==
    LET block == getLine(d, index)
    IN  block # <<>> /\ block[1].kind = "quote"

\* quill.insertEmbed(index, 'quote', value)
insertEmbed(d, index, value) ==
    SubSeq(d, 1, index) \o <<QuoteBlock(value)>> \o SubSeq(d, index + 1, Len(d))

\* Editor methods that throw inside the try block of insertQuote
HandledFaults == {"none", "insertEmbed", "setSelection"}

\* Editor methods that throw anywhere in insertQuote
AllFaults == HandledFaults \cup {"getSelection", "getLine"}

Outcome(r, d, sel, t, cs) == [ret |-> r, doc |-> d, selection |-> sel, toast |-> t, calls |-> cs]

\* Variant: the nesting check runs before the content validation
insertQuoteNestingFirst(d, sel, content, author, fault) ==
    LET a == IF author.t = "undefined" THEN [t |-> "string", v |-> <<>>] ELSE author
        index == sel[1]
    IN  IF fault = "getSelection"
        THEN Outcome("throw", d, sel, toast, <<"getSelection">>)
        ELSE IF sel = <<>>
        THEN Outcome("false", d, sel,
                     showToast("Please place cursor where you want to insert the quote",
                               <<>>, "warning"),
                     <<"getSelection">>)
        ELSE IF fault = "getLine"
        THEN Outcome("throw", d, sel, toast, <<"getSelection", "getLine">>)
        ELSE IF isInsideQuote(d, index)
        THEN Outcome("false", d, sel,
                     showToast("Quotes cannot be nested inside other quotes", <<>>, "warning"),
                     <<"getSelection", "getLine">>)
        ELSE IF ~isValidQuoteContent(content)
        THEN Outcome("false", d, sel,
                     showValidationError(getValidationDetails(content).reasons),
                     <<"getSelection", "getLine">>)
        ELSE IF fault = "insertEmbed"
        THEN Outcome("false", d, sel, showToast("Failed to insert quote", <<>>, "error"),
                     <<"getSelection", "getLine", "insertEmbed">>)
        ELSE IF fault = "setSelection"
        THEN Outcome("false", insertEmbed(d, index, QuoteValue(content, a)), sel,
                     showToast("Failed to insert quote", <<>>, "error"),
                     <<"getSelection", "getLine", "insertEmbed", "setSelection">>)
        ELSE Outcome("true", insertEmbed(d, index, QuoteValue(content, a)), <<index + 1>>,
                     toast,
                     <<"getSelection", "getLine", "insertEmbed", "setSelection">>)

\* insertQuote(content, author = '') on document d with selection sel, when the
\* editor method named by fault throws
insertQuote(d, sel, content, author, fault) ==
    LET a == IF author.t = "undefined" THEN [t |-> "string", v |-> <<>>] ELSE author
        index == sel[1]
    IN  IF fault = "getSelection"
        THEN Outcome("throw", d, sel, toast, <<"getSelection">>)
        ELSE IF sel = <<>>
        THEN Outcome("false", d, sel,
                     showToast("Please place cursor where you want to insert the quote",
                               <<>>, "warning"),
                     <<"getSelection">>)
        ELSE IF ~isValidQuoteContent(content)
        THEN Outcome("false", d, sel,
                     showValidationError(getValidationDetails(content).reasons),
                     <<"getSelection">>)
        ELSE IF fault = "getLine"
        THEN Outcome("throw", d, sel, toast, <<"getSelection", "getLine">>)
        ELSE IF isInsideQuote(d, index)
        THEN Outcome("false", d, sel,
                     showToast("Quotes cannot be nested inside other quotes", <<>>, "warning"),
                     <<"getSelection", "getLine">>)
        ELSE IF fault = "insertEmbed"
        THEN Outcome("false", d, sel, showToast("Failed to insert quote", <<>>, "error"),
                     <<"getSelection", "getLine", "insertEmbed">>)
        ELSE IF fault = "setSelection"
        THEN Outcome("false", insertEmbed(d, index, QuoteValue(content, a)), sel,
                     showToast("Failed to insert quote", <<>>, "error"),
                     <<"getSelection", "getLine", "insertEmbed", "setSelection">>)
        ELSE Outcome("true", insertEmbed(d, index, QuoteValue(content, a)), <<index + 1>>,
                     toast,
                     <<"getSelection", "getLine", "insertEmbed", "setSelection">>)

\* Contents handed to insertQuote
Contents ==
    {JsString(Serialize(f)) :
        f \in {<<TextNode(<<"x">>)>>,
               <<TextNode(<<">", " ", "x">>)>>,
               <<Element("blockquote", Q_quote, {Attr("data-cite", "u")},
                         <<TextNode(<<"x">>)>>)>>}}

NoCall == [content |-> None, author |-> None, doc |-> <<>>, selection |-> <<>>]

EditorIdle ==
    /\ doc = <<Line>>
    /\ selection = <<>>
    /\ call = NoCall
    /\ ret = "none"
    /\ toast = NoToast
    /\ calls = <<>>
    /\ op = "none"

PipeIdle ==
    /\ richText = None
    /\ pc = "editor"
    /\ valid = FALSE
    /\ report = NoReport
    /\ sanitized = None
    /\ revalid = FALSE
    /\ resanitized = None
    /\ blot = NoBlot

NoPaste == [html |-> None, text |-> None, prevented |-> FALSE, inserted |-> "none"]

\* No dialog is open, no paste happened, the toolbar is not wired
UiIdle ==
    /\ paste = NoPaste
    /\ dialogs = <<>>
    /\ focus = "editor"
    /\ handler = "none"

\* No QuillD editor exists
QuilldIdle ==
    /\ wordCounts = <<>>
    /\ quills = <<>>

InitEditor == PipeIdle /\ EditorIdle /\ ManagerIdle /\ UiIdle /\ QuilldIdle

\* The user or the application moves the cursor: quill.setSelection(index, 0)
SetCursor ==
    /\ \E index \in 0..(Len(doc) - 1) : selection' = <<index>>
    /\ op' = "setSelection"
    /\ UNCHANGED <<doc, call, ret, toast, calls>>
    /\ UNCHANGED <<pipeVars, managerVars, uiVars, quilldVars>>

\* The editor loses focus: getSelection() is null
Blur ==
    /\ selection # <<>>
    /\ selection' = <<>>
    /\ op' = "blur"
    /\ UNCHANGED <<doc, call, ret, toast, calls>>
    /\ UNCHANGED <<pipeVars, managerVars, uiVars, quilldVars>>

\* A click on a quote block puts the cursor after it
ClickQuote ==
    /\ \E index \in 0..(Len(doc) - 1) :
          /\ doc[index + 1].kind = "quote"
          /\ selection' = <<index + 1>>
    /\ op' = "clickQuote"
    /\ UNCHANGED <<doc, call, ret, toast, calls>>
    /\ UNCHANGED <<pipeVars, managerVars, uiVars, quilldVars>>

InsertQuoteWith(faults) ==
    /\ \E content \in Contents, author \in Authors, fault \in faults :
          \E out \in {insertQuote(doc, selection, content, author, fault)} :
              /\ Len(out.doc) <= MaxDoc
              /\ call' = [content |-> content, author |-> author,
                          doc |-> doc, selection |-> selection]
              /\ doc' = out.doc
              /\ selection' = out.selection
              /\ ret' = out.ret
              /\ toast' = out.toast
              /\ calls' = out.calls
    /\ op' = "insertQuote"
    /\ UNCHANGED <<pipeVars, managerVars, uiVars, quilldVars>>

InsertQuote == InsertQuoteWith(HandledFaults)

InsertQuoteFaulty == InsertQuoteWith(AllFaults)

NextEditor == SetCursor \/ Blur \/ ClickQuote \/ InsertQuote

SpecEditor == InitEditor /\ [][NextEditor]_vars

NextFaulty == SetCursor \/ Blur \/ ClickQuote \/ InsertQuoteFaulty

SpecFaulty == InitEditor /\ [][NextFaulty]_vars

----------------------------------------------------------------------------
(* The validator pipeline, as a specification *)

Init ==
    /\ richText \in Inputs
    /\ pc = "start"
    /\ valid = FALSE
    /\ report = NoReport
    /\ sanitized = None
    /\ revalid = FALSE
    /\ resanitized = None
    /\ blot = NoBlot
    /\ EditorIdle
    /\ ManagerIdle
    /\ UiIdle
    /\ QuilldIdle

Validate ==
    /\ pc = "start"
    /\ valid' = isValidQuoteContent(richText)
    /\ pc' = "validated"
    /\ UNCHANGED <<richText, report, sanitized, revalid, resanitized, blot>>
    /\ UNCHANGED <<editorVars, managerVars, uiVars, quilldVars>>

Details ==
    /\ pc = "validated"
    /\ report' = getValidationDetails(richText)
    /\ pc' = "reported"
    /\ UNCHANGED <<richText, valid, sanitized, revalid, resanitized, blot>>
    /\ UNCHANGED <<editorVars, managerVars, uiVars, quilldVars>>

Sanitize ==
    /\ pc = "reported"
    /\ sanitized' = sanitizeQuoteContent(richText)
    /\ pc' = "sanitized"
    /\ UNCHANGED <<richText, valid, report, revalid, resanitized, blot>>
    /\ UNCHANGED <<editorVars, managerVars, uiVars, quilldVars>>

Revalidate ==
    /\ pc = "sanitized"
    /\ revalid' = isValidQuoteContent(sanitized)
    /\ pc' = "revalidated"
    /\ UNCHANGED <<richText, valid, report, sanitized, resanitized, blot>>
    /\ UNCHANGED <<editorVars, managerVars, uiVars, quilldVars>>

Resanitize ==
    /\ pc = "revalidated"
    /\ resanitized' = sanitizeQuoteContent(sanitized)
    /\ pc' = "resanitized"
    /\ UNCHANGED <<richText, valid, report, sanitized, revalid, blot>>
    /\ UNCHANGED <<editorVars, managerVars, uiVars, quilldVars>>

Create ==
    /\ pc = "resanitized"
    /\ \E author \in Authors, isObject \in BOOLEAN :
          LET value == IF isObject THEN QuoteValue(richText, author) ELSE NonObject
              node == QuoteBlotCreate(value)
          IN  blot' = [value |-> value, quoteText |-> node.quoteText,
                       quoteAuthor |-> node.quoteAuthor]
    /\ pc' = "created"
    /\ UNCHANGED <<richText, valid, report, sanitized, revalid, resanitized>>
    /\ UNCHANGED <<editorVars, managerVars, uiVars, quilldVars>>

Next == Validate \/ Details \/ Sanitize \/ Revalidate \/ Resanitize \/ Create

Spec == Init /\ [][Next]_vars

----------------------------------------------------------------------------
(* QuoteManager.setupPasteHandler: the listener for paste on quill.root *)

\* clipboardData.getData(type): a string, empty when the clipboard has no such data
NoData == JsString(<<>>)

\* What dangerouslyPasteHTML / insertText put at the index; nothing for ''
Pasted(d, index, kind, content) ==
    IF content.v = <<>> THEN d
    ELSE SubSeq(d, 1, index)
             \o <<[kind |-> kind,
                   quoteText |-> IF kind = "html" THEN Parse(content.v) ELSE content.v,
                   quoteAuthor |-> <<>>]>>
             \o SubSeq(d, index + 1, Len(d))

PasteOutcome(prevented, inserted, d, t) ==
    [prevented |-> prevented, inserted |-> inserted, doc |-> d, toast |-> t]

\* Variant: the clipboard content is inserted without validation
pasteHandlerUnchecked(d, sel, htmlData, textData) ==
    IF sel = <<>> THEN PasteOutcome(FALSE, "none", d, toast)
    ELSE IF ~isInsideQuote(d, sel[1]) THEN PasteOutcome(FALSE, "none", d, toast)
    ELSE LET contentToInsert == IF htmlData.v # <<>> THEN htmlData ELSE textData
         IN  IF htmlData.v # <<>>
             THEN PasteOutcome(TRUE, "html", Pasted(d, sel[1], "html", contentToInsert), toast)
             ELSE PasteOutcome(TRUE, "text", Pasted(d, sel[1], "text", contentToInsert), toast)

\* The paste listener on document d with selection sel
pasteHandler(d, sel, htmlData, textData) ==
    IF sel = <<>> THEN PasteOutcome(FALSE, "none", d, toast)
    ELSE IF ~isInsideQuote(d, sel[1]) THEN PasteOutcome(FALSE, "none", d, toast)
    ELSE LET contentToInsert == IF htmlData.v # <<>> THEN htmlData ELSE textData
         IN  IF ~isValidQuoteContent(contentToInsert)
             THEN PasteOutcome(TRUE, "none", d,
                               showToast("Cannot paste quotes inside existing quotes",
                                         <<>>, "warning"))
             ELSE IF htmlData.v # <<>>
             THEN PasteOutcome(TRUE, "html", Pasted(d, sel[1], "html", contentToInsert), toast)
             ELSE PasteOutcome(TRUE, "text", Pasted(d, sel[1], "text", contentToInsert), toast)

\* What the clipboard holds as text/html and as text/plain
HtmlData ==
    {NoData,
     JsString(Serialize(<<Element("p", <<>>, {}, <<TextNode(<<"x">>)>>)>>)),
     JsString(Serialize(<<Element("blockquote", <<>>, {}, <<TextNode(<<"x">>)>>)>>))}

TextData == {NoData, JsString(<<CharData(<<"x">>)>>), JsString(<<CharData(<<">", " ", "x">>)>>)}

Paste ==
    /\ \E htmlData \in HtmlData, textData \in TextData :
          \E out \in {pasteHandler(doc, selection, htmlData, textData)} :
              /\ Len(out.doc) <= MaxDoc
              /\ paste' = [html |-> htmlData, text |-> textData,
                           prevented |-> out.prevented, inserted |-> out.inserted]
              /\ doc' = out.doc
              /\ toast' = out.toast
    /\ call' = [NoCall EXCEPT !.doc = doc, !.selection = selection]
    /\ op' = "paste"
    /\ UNCHANGED <<selection, ret, calls, dialogs, focus, handler>>
    /\ UNCHANGED <<pipeVars, managerVars, quilldVars>>

\* An editor whose document holds one quote, before or after a line
InitPaste ==
    /\ PipeIdle
    /\ doc \in {<<QuoteBlock(QuoteValue(JsString(<<CharData(<<"x">>)>>), JsString(<<>>))), Line>>,
                <<Line, QuoteBlock(QuoteValue(JsString(<<CharData(<<"x">>)>>), JsString(<<>>)))>>}
    /\ selection = <<>>
    /\ call = NoCall
    /\ ret = "none"
    /\ toast = NoToast
    /\ calls = <<>>
    /\ op = "none"
    /\ ManagerIdle
    /\ UiIdle
    /\ QuilldIdle

NextPaste == SetCursor \/ Blur \/ ClickQuote \/ Paste

SpecPaste == InitPaste /\ [][NextPaste]_vars

----------------------------------------------------------------------------
(* The toolbar button and the quote dialog (QuoteManager)                  *)

\* The methods class QuoteManager defines
QuoteManagerMethods ==
    {"insertQuote", "isValidQuoteContent", "getValidationDetails", "showQuoteDialog",
     "isInsideQuote", "setupToolbarHandler", "setupAlternativeToolbarHandler",
     "styleModal", "setupModalHandlers", "setupPasteHandler", "showValidationError",
     "showToast"}

\* this.<name>(): calling what is not a method is a TypeError
callMethod(name) == IF name \in QuoteManagerMethods THEN "undefined" ELSE "throw"

\* What quill.getModule('toolbar') gives in the constructor
Toolbars == {"absent", "addHandler", "noAddHandler", "getModuleThrows", "addHandlerThrows"}

\* setupToolbarHandler (its second definition, which replaces the first): how
\* the quote button is wired afterwards
setupToolbarHandler(toolbar) ==
    IF toolbar = "getModuleThrows" THEN "pending"
    ELSE IF toolbar = "absent" THEN "unavailable"
    ELSE IF toolbar = "noAddHandler" THEN "pending"
    ELSE IF toolbar = "addHandlerThrows" THEN "pending"
    ELSE "addHandler"

\* The callback of setupAlternativeToolbarHandler, 100 ms later
alternativeToolbarHandler(quoteButton) == IF quoteButton THEN "listener" ELSE "unavailable"

\* A dialog in document.body: its content editor's innerHTML and its author
\* field, which is left empty
Dialog(content) ==
    [content |-> JsString(Serialize(Parse(content.v))),
     author |-> [t |-> "string", v |-> <<>>]]

\* showQuoteDialog(defaultContent = ''): document.body.appendChild(modal)
showQuoteDialog(ds, defaultContent) == Append(ds, Dialog(defaultContent))

\* closeModal: document.body.removeChild(modal)
closeModal(ds, j) == SubSeq(ds, 1, j - 1) \o SubSeq(ds, j + 1, Len(ds))

\* Variant: the dialog is closed whatever insertQuote returned
clickInsertAlwaysClosing(ds, j, r) == closeModal(ds, j)

\* The click listener of the Insert button, insertQuote having returned r
clickInsert(ds, j, r) == IF r = "true" THEN closeModal(ds, j) ELSE ds

\* Contents handed to showQuoteDialog: text, a blockquote
DefaultContents ==
    {JsString(Serialize(f)) :
        f \in {<<TextNode(<<"x">>)>>,
               <<Element("blockquote", Q_quote, {}, <<TextNode(<<"x">>)>>)>>}}

\* After new QuoteManager(quill): the constructor ran setupToolbarHandler
InitDialog ==
    /\ PipeIdle /\ EditorIdle /\ ManagerIdle /\ QuilldIdle
    /\ paste = NoPaste
    /\ dialogs = <<>>
    /\ focus = "editor"
    /\ handler \in {setupToolbarHandler(toolbar) : toolbar \in Toolbars}

\* The timer of setupAlternativeToolbarHandler fires
Timeout ==
    /\ handler = "pending"
    /\ \E quoteButton \in BOOLEAN : handler' = alternativeToolbarHandler(quoteButton)
    /\ op' = "timeout"
    /\ UNCHANGED <<doc, selection, call, ret, toast, calls, paste, dialogs, focus>>
    /\ UNCHANGED <<pipeVars, managerVars, quilldVars>>

\* The quote button is used: () => { this.handleQuoteButton(); }
QuoteButton ==
    /\ handler \in {"addHandler", "listener"}
    /\ ret' = callMethod("handleQuoteButton")
    /\ op' = "quoteButton"
    /\ UNCHANGED <<doc, selection, call, toast, calls, uiVars>>
    /\ UNCHANGED <<pipeVars, managerVars, quilldVars>>

\* quill.showQuoteDialog(defaultContent); the content editor gets the focus
ShowQuoteDialog ==
    /\ Len(dialogs) < MaxDialogs
    /\ \E defaultContent \in DefaultContents :
          dialogs' = showQuoteDialog(dialogs, defaultContent)
    /\ focus' = "dialog"
    /\ op' = "showQuoteDialog"
    /\ UNCHANGED <<doc, selection, call, ret, toast, calls, paste, handler>>
    /\ UNCHANGED <<pipeVars, managerVars, quilldVars>>

ClickInsert ==
    /\ \E j \in 1..Len(dialogs), fault \in HandledFaults :
          \E out \in {insertQuote(doc, selection, dialogs[j].content, dialogs[j].author,
                                  fault)} :
              /\ Len(out.doc) <= MaxDoc
              /\ call' = [content |-> dialogs[j].content, author |-> dialogs[j].author,
                          doc |-> doc, selection |-> selection]
              /\ doc' = out.doc
              /\ selection' = out.selection
              /\ ret' = out.ret
              /\ toast' = out.toast
              /\ calls' = out.calls
              /\ dialogs' = clickInsert(dialogs, j, out.ret)
              /\ focus' = IF dialogs' # dialogs THEN "editor" ELSE focus
    /\ op' = "clickInsert"
    /\ UNCHANGED <<paste, handler>>
    /\ UNCHANGED <<pipeVars, managerVars, quilldVars>>

\* closeModal as the click listener of the Cancel button or of the overlay
Close(button) ==
    /\ \E j \in 1..Len(dialogs) : dialogs' = closeModal(dialogs, j)
    /\ focus' = "editor"
    /\ op' = button
    /\ UNCHANGED <<doc, selection, call, ret, toast, calls, paste, handler>>
    /\ UNCHANGED <<pipeVars, managerVars, quilldVars>>

ClickCancel == Close("clickCancel")

ClickOverlay == Close("clickOverlay")

NextDialog ==
    \/ SetCursor
    \/ Blur
    \/ ClickQuote
    \/ Timeout
    \/ QuoteButton
    \/ ShowQuoteDialog
    \/ ClickInsert
    \/ ClickCancel
    \/ ClickOverlay

SpecDialog == InitDialog /\ [][NextDialog]_vars

----------------------------------------------------------------------------
(* QuillD (src/quilld/README.md): editors in one parent element, each with   *)
(* the word-count container initializeWordCount appends to that parent.      *)

Editors == 1..MaxEditors

\* parentNode.appendChild(container): the new container is the last child
initializeWordCount(children, e) == Append(children, e)

\* destroy: parentNode.querySelector('.quilld-word-count') is the first
\* container of the parent in document order; it is removed when there is one
destroyWordCount(children) == IF children = <<>> THEN <<>> ELSE Tail(children)

InitQuillD ==
    /\ PipeIdle
    /\ EditorIdle
    /\ ManagerIdle
    /\ UiIdle
    /\ wordCounts = <<>>
    /\ quills = [e \in Editors |-> "none"]

\* createEditor(container, options) for a container of the parent;
\* options.wordCount === false gives an editor without word count
CreateQuillD ==
    /\ \E e \in Editors, wordCount \in BOOLEAN :
          /\ quills[e] = "none"
          /\ IF wordCount
             THEN /\ wordCounts' = initializeWordCount(wordCounts, e)
                  /\ quills' = [quills EXCEPT ![e] = "counted"]
             ELSE /\ wordCounts' = wordCounts
                  /\ quills' = [quills EXCEPT ![e] = "plain"]
    /\ UNCHANGED <<pipeVars, editorVars, managerVars, uiVars>>

\* editor.destroy()
DestroyQuillD ==
    /\ \E e \in Editors :
          /\ quills[e] \in {"counted", "plain"}
          /\ quills' = [quills EXCEPT ![e] = "destroyed"]
    /\ wordCounts' = destroyWordCount(wordCounts)
    /\ UNCHANGED <<pipeVars, editorVars, managerVars, uiVars>>

NextQuillD == CreateQuillD \/ DestroyQuillD

SpecQuillD == InitQuillD /\ [][NextQuillD]_vars

----------------------------------------------------------------------------
(* QuillM: one instance, the editor it created last *)

\* new QuillM(): the quote extension is registered when QuoteManager is loaded
InitQuillM ==
    /\ PipeIdle
    /\ EditorIdle
    /\ defaultConfig = DefaultConfig
    /\ extensions \in {NoExtensions, "quote" :> QuoteExtension}
    /\ request = NoRequest
    /\ finalConfig = Undefined
    /\ managers = NoExtensions
    /\ body = EmptyBody
    /\ UiIdle
    /\ QuilldIdle

\* An editor exists: the last create call did not throw
EditorCreated == finalConfig.t = "object"

RegisterExtension ==
    /\ \E name \in ExtensionNames, extension \in UserExtensions :
          extensions' = (name :> extension) @@ extensions
    /\ request' = [NoRequest EXCEPT !.method = "registerExtension"]
    /\ UNCHANGED <<defaultConfig, finalConfig, managers, body>>
    /\ UNCHANGED <<pipeVars, editorVars, uiVars, quilldVars>>

\* createEditor(container, config) and what it does with the configuration
\* handed to it; a throwing mergeConfig leaves no editor
CreateWith(method, given, config) ==
    /\ \E merged \in {mergeConfig(defaultConfig, config)} :
          /\ finalConfig' = merged
          /\ managers' = IF merged.t = "throw" THEN NoExtensions
                         ELSE initializeManagers(extensions)
    /\ defaultConfig' = defaultsAfterMerge(defaultConfig, config)
    /\ body' = EmptyBody
    /\ request' = [NoRequest EXCEPT !.method = method, !.config = given]
    /\ UNCHANGED extensions
    /\ UNCHANGED <<pipeVars, editorVars, uiVars, quilldVars>>

CreateEditor == \E config \in UserConfigs : CreateWith("createEditor", config, config)

CreateSimpleEditor ==
    \E config \in UserConfigs : CreateWith("createSimpleEditor", config, SimpleConfig(config))

ImportContent ==
    /\ EditorCreated
    /\ \E content \in ImportContents :
          /\ body' = importContent(body, content)
          /\ request' = [NoRequest EXCEPT !.method = "importContent", !.content = content]
    /\ UNCHANGED <<defaultConfig, extensions, finalConfig, managers>>
    /\ UNCHANGED <<pipeVars, editorVars, uiVars, quilldVars>>

CreateBubbleEditor ==
    \E config \in FewConfigs : CreateWith("createBubbleEditor", config, BubbleConfig(config))

CreateQuoteEditor ==
    \E config \in FewConfigs : CreateWith("createQuoteEditor", config, QuoteConfig(config))

\* createViewer(container, content): a read-only editor showing the content
CreateViewer ==
    /\ \E merged \in {mergeConfig(defaultConfig, ViewerConfig)} :
          /\ finalConfig' = merged
          /\ managers' = initializeManagers(extensions)
    /\ defaultConfig' = defaultsAfterMerge(defaultConfig, ViewerConfig)
    /\ \E content \in ViewerContents :
          /\ body' = importContent(EmptyBody, content)
          /\ request' = [NoRequest EXCEPT !.method = "createViewer", !.content = content]
    /\ UNCHANGED extensions
    /\ UNCHANGED <<pipeVars, editorVars, uiVars, quilldVars>>

\* quillM.mergeConfig(quillM.defaultConfig, userConfig) called from outside
MergeConfig ==
    /\ \E config \in FewConfigs :
          /\ defaultConfig' = defaultsAfterMerge(defaultConfig, config)
          /\ request' = [NoRequest EXCEPT !.method = "mergeConfig", !.config = config]
    /\ UNCHANGED <<extensions, finalConfig, managers, body>>
    /\ UNCHANGED <<pipeVars, editorVars, uiVars, quilldVars>>

NextQuillM ==
    \/ RegisterExtension
    \/ CreateEditor
    \/ CreateSimpleEditor
    \/ CreateBubbleEditor
    \/ CreateQuoteEditor
    \/ CreateViewer
    \/ MergeConfig
    \/ ImportContent

SpecQuillM == InitQuillM /\ [][NextQuillM]_vars

----------------------------------------------------------------------------
(* Properties of the sanitizer (specification Spec) *)

Range(seq) == {seq[j] : j \in 1..Len(seq)}

Revalidated == pc \in {"revalidated", "resanitized", "created"}

Resanitized == pc \in {"resanitized", "created"}

\* C1: for every string fragment, the output of sanitizeQuoteContent passes
\* isValidQuoteContent.
C1_SanitizedIsValid ==
    (Revalidated /\ richText.t = "string") => revalid

\* C2: when only the quote-container rule, the blockquote rule and the attribute
\* rule fire on a fragment (any of them, none of the two others), the output of
\* sanitizeQuoteContent passes isValidQuoteContent.
C2_Rules125Remediated ==
    (/\ Revalidated
     /\ richText.t = "string"
     /\ report.reasons # <<>>
     /\ Range(report.reasons) \subseteq {R_blocks, R_blockquotes, R_attributes})
        => revalid

\* C3: sanitizeQuoteContent is idempotent: sanitizing its output again returns
\* that output.
C3_SanitizeIdempotent ==
    Resanitized => resanitized = sanitized

----------------------------------------------------------------------------
(* Properties of insertQuote (specifications SpecEditor and SpecFaulty) *)

Called == op = "insertQuote"

HadSelection == call.selection # <<>>

\* The block at the selection index, when insertQuote was called, was a quote
WasInsideQuote ==
    /\ HadSelection
    /\ call.selection[1] + 1 <= Len(call.doc)
    /\ call.doc[call.selection[1] + 1].kind = "quote"

ContentValid == isValidQuoteContent(call.content)

NestingToast == showToast("Quotes cannot be nested inside other quotes", <<>>, "warning")

\* C4: a call of insertQuote with the insertion point inside a quote block
\* returns false and leaves the document as it was, whatever the content and
\* the author.
C4_NestedInsertRejected ==
    (Called /\ WasInsideQuote) => (ret = "false" /\ doc = call.doc)

\* Valid content is refused inside a quote
C4_Witness ==
    Called /\ WasInsideQuote /\ ContentValid /\ ret = "false" /\ doc = call.doc

\* C5 as stated: with the insertion point inside a quote and content that fails
\* validation, the rejection reported is the nesting rejection.
C5_NestingReportedFirst ==
    (Called /\ WasInsideQuote /\ ~ContentValid) => toast = NestingToast

\* C5 as amended: content validation runs before the nesting check.  Inside a
\* quote, content that fails validation is rejected with the validation reasons
\* and the line is never looked up; the nesting rejection is reported for content
\* that passes validation.
C5_ValidationReportedFirst ==
    (Called /\ WasInsideQuote) =>
        /\ ret = "false"
        /\ IF ContentValid
           THEN toast = NestingToast /\ calls = <<"getSelection", "getLine">>
           ELSE /\ toast.message = "Cannot insert quote: "
                /\ toast.reasons = getValidationDetails(call.content).reasons
                /\ calls = <<"getSelection">>

\* Invalid content offered inside a quote: the validation reasons are shown
C5_Witness ==
    /\ Called /\ WasInsideQuote /\ ~ContentValid
    /\ toast.message = "Cannot insert quote: "
    /\ toast.reasons # <<>>

\* C6: with a selection and content that fails validation, insertQuote returns
\* false, calls neither insertEmbed nor setSelection, leaves document and cursor
\* as they were, and reports exactly the non-empty reasons of
\* getValidationDetails(content).
C6_StrictRejection ==
    (Called /\ HadSelection /\ ~ContentValid) =>
        /\ ret = "false"
        /\ "insertEmbed" \notin Range(calls)
        /\ "setSelection" \notin Range(calls)
        /\ doc = call.doc
        /\ selection = call.selection
        /\ toast.type = "warning"
        /\ toast.reasons = getValidationDetails(call.content).reasons
        /\ toast.reasons # <<>>

\* Content breaking several rules is refused outside any quote
C6_Witness ==
    /\ Called /\ HadSelection /\ ~WasInsideQuote /\ ~ContentValid
    /\ ret = "false"
    /\ Len(toast.reasons) > 1

\* Exactly one quote embed with the given content and author stands at the
\* selection index, the rest of the document is as it was
InsertedAtSelection ==
    /\ HadSelection
    /\ call.content.t = "string"
    /\ LET index == call.selection[1]
           quote == [kind |-> "quote",
                     quoteText |-> Parse(call.content.v),
                     quoteAuthor |-> IF call.author.t = "undefined" THEN <<>>
                                     ELSE call.author.v]
       IN  doc = SubSeq(call.doc, 1, index) \o <<quote>>
                    \o SubSeq(call.doc, index + 1, Len(call.doc))

\* C7: insertQuote returns true iff exactly one quote embed with the given
\* content and author was inserted at the selection index, and when it returns
\* false the document holds no new quote.
C7_ResultMatchesDocument ==
    Called =>
        /\ (ret = "true") <=> InsertedAtSelection
        /\ (ret = "false") => (doc = call.doc)

\* C8: insertQuote returns a boolean in every editor state, also when
\* getSelection, getLine, insertEmbed or setSelection fail.
C8_InsertQuoteNeverThrows ==
    Called => ret \in {"true", "false"}

----------------------------------------------------------------------------
(* Properties of QuoteBlot.create and getValidationDetails (specification Spec) *)

Created == pc = "created"

\* C9: QuoteBlot.create stores the given content when it passes validation and
\* sanitizeQuoteContent(content) when it does not, whether or not that result
\* is valid; a value that is no object, or a missing content or author, gives
\* empty content and empty author.
C9_CreateStoresContent ==
    Created =>
        LET value == blot.value
            content == value.content
        IN  IF ~value.isObject
            THEN blot.quoteText = <<>> /\ blot.quoteAuthor = <<>>
            ELSE /\ blot.quoteAuthor = (IF value.author.t = "string" THEN value.author.v
                                        ELSE <<>>)
                 /\ content.t \in {"null", "undefined"} => blot.quoteText = <<>>
                 /\ (content.t = "string" /\ valid) => blot.quoteText = Parse(content.v)
                 /\ (content.t = "string" /\ ~valid) => blot.quoteText = Parse(sanitized.v)

\* Invalid content whose sanitized form is still invalid is stored all the same
C9_Witness ==
    /\ Created
    /\ blot.value.isObject
    /\ ~valid
    /\ ~revalid
    /\ blot.quoteText = Parse(sanitized.v)
    /\ blot.quoteText # Parse(richText.v)

Reported == pc \notin {"start", "validated", "editor"}

AnyRuleMatches(container) ==
    \/ hasQuoteBlocks(container)
    \/ hasBlockquotes(container)
    \/ hasQuoteMarkers(container)
    \/ hasQuoteClasses(container)
    \/ hasQuoteAttributes(container)

\* C10: in every report of getValidationDetails, isValid is true iff reasons is
\* empty, and iff none of the five rules matches the fragment.
C10_ReportConsistent ==
    Reported =>
        /\ report.isValid <=> (report.reasons = <<>>)
        /\ report.isValid <=> ~(richText.t = "string" /\ AnyRuleMatches(Parse(richText.v)))

\* A report of a fragment on which only the class rule fires
C10_Witness ==
    /\ Reported
    /\ ~report.isValid
    /\ report.reasons = <<R_classes>>

\* The reason text of a rule when it matches, nothing when it does not
ReasonOf(matched, text) == IF matched THEN <<text>> ELSE <<>>

\* C11: for every input, the reasons of getValidationDetails hold exactly one
\* reason text per matched rule, without duplicates, in the order quote
\* container, blockquote, quote markers, quote classes, quote attributes.
C11_ReasonsInRuleOrder ==
    Reported =>
        IF richText.t # "string" THEN report.reasons = <<>>
        ELSE \E c \in {Parse(richText.v)} :
                report.reasons =
                    ReasonOf(hasQuoteBlocks(c), R_blocks)
                        \o ReasonOf(hasBlockquotes(c), R_blockquotes)
                        \o ReasonOf(hasQuoteMarkers(c), R_markers)
                        \o ReasonOf(hasQuoteClasses(c), R_classes)
                        \o ReasonOf(hasQuoteAttributes(c), R_attributes)

\* A fragment on which all five rules fire
C11_Witness ==
    /\ Reported
    /\ report.reasons = <<R_blocks, R_blockquotes, R_markers, R_classes, R_attributes>>

\* C12: isValidQuoteContent and getValidationDetails agree on every input,
\* string or not: the boolean of the first is the isValid of the second.
C12_ValidatorsAgree ==
    Reported => (valid = report.isValid)

\* Only the rule evaluated last fires: both validators reject
C12_Witness ==
    /\ Reported
    /\ richText.t = "string"
    /\ ~valid
    /\ ~report.isValid
    /\ report.reasons = <<R_attributes>>

Sanitized == pc \in {"sanitized", "revalidated", "resanitized", "created"}

\* C13: null, undefined, the empty string, a number and an object are valid for
\* isValidQuoteContent, get the report {isValid: true, reasons: []} and come
\* back from sanitizeQuoteContent unchanged.
C13_NonStringVacuouslyValid ==
    (Sanitized /\ (richText.t # "string" \/ richText.v = <<>>)) =>
        /\ valid
        /\ report = [isValid |-> TRUE, reasons |-> <<>>]
        /\ sanitized = richText

\* An object went through the three functions
C13_Witness ==
    /\ Sanitized
    /\ richText = JsObject
    /\ valid
    /\ report.reasons = <<>>
    /\ sanitized = JsObject

----------------------------------------------------------------------------
(* Properties of QuillM (specification SpecQuillM) *)

\* The deep merge of two plain objects: the keys of both, a key of the defaults
\* alone with its default, a key of the user with the user's value, two plain
\* objects under one key merged in the same way
RECURSIVE DeepMerged(_, _)
DeepMerged(d, u) ==
    Obj([k \in DOMAIN d.props \cup DOMAIN u.props |->
            IF k \notin DOMAIN u.props THEN d.props[k]
            ELSE IF /\ u.props[k].t = "object"
                    /\ k \in DOMAIN d.props
                    /\ d.props[k].t = "object"
            THEN DeepMerged(d.props[k], u.props[k])
            ELSE u.props[k]])

\* C14: the configuration createEditor hands to Quill is the deep merge of the
\* user configuration into the defaults: at every depth a key of the defaults
\* alone keeps its default, a key of the user configuration takes the user's
\* value, arrays are replaced as a whole.
C14_DeepMerge ==
    request.method = "createEditor" =>
        finalConfig = DeepMerged(defaultConfig, request.config)

\* The value under modules.toolbar of a configuration, undefined when missing
ToolbarOf(config) == GetProp(GetProp(config, "modules"), "toolbar")

\* C15: for every additional configuration that does not itself give
\* modules.toolbar, the configuration createSimpleEditor hands to Quill has the
\* three-group minimal toolbar.
C15_SimpleEditorMinimalToolbar ==
    (/\ request.method = "createSimpleEditor"
     /\ "toolbar" \notin DOMAIN GetProp(request.config, "modules").props)
        => ToolbarOf(finalConfig) = Arr(MinimalToolbar)

\* The extension was registered with a manager, under either key
HasManagerClass(extension) ==
    extension.manager # NoClass \/ extension.managerClass # NoClass

\* C16: after createEditor, every extension registered with a manager has its
\* manager instantiated: getManager(name) is not null.
C16_RegisteredManagersInstantiated ==
    (request.method \in {"createEditor", "createSimpleEditor"} /\ EditorCreated) =>
        \A name \in DOMAIN extensions :
            HasManagerClass(extensions[name]) => getManager(managers, name) # "null"

\* The keys of an importContent argument that were supplied, in precedence order
Supplied(content) ==
    SelectSeq(<<[setter |-> "setContents", value |-> content.delta],
                [setter |-> "innerHTML", value |-> content.html],
                [setter |-> "setText", value |-> content.text]>>,
              LAMBDA w : w.value.t # "undefined")

\* C17: after importContent with at least one of delta, html and text supplied,
\* the content of the editor is the supplied value, the empty string included;
\* of several supplied the first of delta, html, text is the one applied.
C17_ImportAppliesSupplied ==
    (request.method = "importContent" /\ Supplied(request.content) # <<>>) =>
        body = Head(Supplied(request.content))

----------------------------------------------------------------------------
(* Properties of the sanitizer steps (specification Spec) *)

SanitizedString == Sanitized /\ richText.t = "string"

\* C18: the output of sanitizeQuoteContent holds no blockquote element at any
\* depth; nested blockquotes are replaced as well.
C18_NoBlockquoteRemains ==
    SanitizedString => ~hasBlockquotes(Parse(sanitized.v))

\* C19: no element of the output of sanitizeQuoteContent carries data-quote,
\* data-quotation, data-cite or role="blockquote".
C19_NoQuoteAttributeRemains ==
    SanitizedString =>
        \A el \in ElementsOf(Parse(sanitized.v)) :
            \A a \in el.attrs :
                /\ a.n \notin {"data-quote", "data-quotation", "data-cite"}
                /\ ~(a.n = "role" /\ a.v = "blockquote")

\* The fragment is one text node
IsTextOnly(container) == Len(container) = 1 /\ container[1].k = "text"

LineBreaks(s) == Cardinality({j \in 1..Len(s) : s[j] = "\n"})

\* C20: sanitizeQuoteContent strips the marker of every line the quote-marker
\* rule matches, so the rule does not fire on the output, and it keeps the line
\* breaks and blank lines of a text node.
C20_MarkersStrippedLinesKept ==
    SanitizedString =>
        /\ ~hasQuoteMarkers(Parse(sanitized.v))
        /\ IsTextOnly(Parse(richText.v)) =>
               LineBreaks(TextContent(Parse(sanitized.v)))
                   = LineBreaks(TextContent(Parse(richText.v)))

----------------------------------------------------------------------------
(* Properties of the rules and of the quote-container step (specification Spec) *)

\* The elements of a forest that are neither a quote container nor inside one
RECURSIVE OutsideQuoteBlocks(_)
OutsideQuoteBlocks(kids) ==
    IF kids = <<>> THEN 0
    ELSE LET n == Head(kids)
         IN  (IF n.k = "text" \/ ClassTokens(n.cls) \cap quoteSelectors # {} THEN 0
              ELSE 1 + OutsideQuoteBlocks(n.kids))
                 + OutsideQuoteBlocks(Tail(kids))

C22_ClassRuleGap ==
    (Revalidated /\ report.reasons = <<R_classes>>) =>
        /\ ~revalid
        /\ \E el \in ElementsOf(Parse(sanitized.v)) : Includes(ToLowerCase(el.cls), Q_quote)

\* A fragment with only a quote-like class comes back from the sanitizer as it was
C22_Witness ==
    /\ Revalidated
    /\ report.reasons = <<R_classes>>
    /\ sanitized = richText
    /\ ~revalid

\* The lines of the text content of a fragment
LinesOf(x) == Split(TextContent(Parse(x.v)), "\n")

\* C23: the quote-marker rule fires iff some line of the text content, leading
\* whitespace trimmed, begins with > followed by a whitespace character; a line
\* of > followed only by whitespace counts.
C23_MarkerRule ==
    (Reported /\ richText.t = "string") =>
        (R_markers \in Range(report.reasons)
            <=> \E j \in 1..Len(LinesOf(richText)) :
                    \E line \in {TrimStart(LinesOf(richText)[j])} :
                        Len(line) >= 2 /\ line[1] = ">" /\ line[2] \in WS)

----------------------------------------------------------------------------
(* Properties of the paste handler (specification SpecPaste) *)

PasteHappened == op = "paste"

\* What the handler takes from the clipboard: the HTML data, else the text data
Clipboard == IF paste.html.v # <<>> THEN paste.html ELSE paste.text

\* C25: a paste with the cursor inside a quote block is always suppressed;
\* content that fails validation is not inserted and a warning is shown; valid
\* content is inserted at the selection index, as HTML when the clipboard has
\* HTML data and as plain text otherwise.  Without a selection or outside a
\* quote the handler neither suppresses the event nor inserts anything.
C25_PasteInsideQuoteValidated ==
    PasteHappened =>
        IF WasInsideQuote
        THEN /\ paste.prevented
             /\ IF ~isValidQuoteContent(Clipboard)
                THEN /\ paste.inserted = "none"
                     /\ doc = call.doc
                     /\ toast.type = "warning"
                ELSE /\ paste.inserted = (IF paste.html.v # <<>> THEN "html" ELSE "text")
                     /\ Clipboard.v # <<>> =>
                            /\ Len(doc) = Len(call.doc) + 1
                            /\ doc[call.selection[1] + 1].kind = paste.inserted
                            /\ doc[call.selection[1] + 2] = call.doc[call.selection[1] + 1]
        ELSE /\ ~paste.prevented
             /\ paste.inserted = "none"
             /\ doc = call.doc

\* Text that fails validation was on the clipboard, inside a quote: refused
C25_Witness ==
    /\ PasteHappened
    /\ WasInsideQuote
    /\ paste.html.v = <<>>
    /\ ~isValidQuoteContent(paste.text)
    /\ paste.prevented
    /\ doc = call.doc

----------------------------------------------------------------------------
(* Properties of QuillD (specification SpecQuillD) *)

\* C26: every editor that was created with a word count and has not been
\* destroyed still has its word-count container in the parent element,
\* whatever editors were created and destroyed around it.
C26_OwnWordCountKept ==
    \A e \in DOMAIN quills :
        quills[e] = "counted" => \E j \in 1..Len(wordCounts) : wordCounts[j] = e

----------------------------------------------------------------------------
(* Further properties of QuillM (specification SpecQuillM) *)

\* The value under a path of one or two keys
At(config, path) ==
    IF Len(path) = 1 THEN GetProp(config, path[1])
    ELSE GetProp(GetProp(config, path[1]), path[2])

\* The paths of one or two keys of a configuration
PathsOf(config) ==
    {<<k>> : k \in DOMAIN config.props}
        \cup UNION {{<<k, j>> : j \in DOMAIN config.props[k].props} : k \in DOMAIN config.props}

\* C27: where the user gives a plain object under a key whose default is an
\* array or a scalar, mergeConfig does not throw and the merged value under
\* that key is a plain object with exactly the user's keys.
C27_ObjectOverArrayOrScalar ==
    request.method = "createEditor" =>
        \A path \in PathsOf(request.config) :
            (/\ At(request.config, path).t = "object"
             /\ At(DefaultConfig, path).t \in {"array", "string", "number", "boolean"})
                => /\ finalConfig.t = "object"
                   /\ At(finalConfig, path) = At(request.config, path)

----------------------------------------------------------------------------
(* The quote button and the quote dialog (specification SpecDialog) *)

\* C29: using the quote button, wired through addHandler or through the
\* delayed click listener, calls a method QuoteManager has and shows the
\* quote dialog; it does not fail with a missing method.
C29_QuoteButtonShowsDialog ==
    op = "quoteButton" => (ret # "throw" /\ dialogs # <<>>)

\* The dialogs that stay in the document when the j-th is taken out
Without(ds, j) == [k \in 1..(Len(ds) - 1) |-> IF k < j THEN ds[k] ELSE ds[k + 1]]

\* C30: a click on Insert takes the clicked dialog out of the document exactly
\* when insertQuote returned true, and leaves every dialog as it was
\* otherwise; a click on Cancel or on the overlay takes the dialog out of the
\* document, gives the focus to the editor and leaves the document alone.
C30_DialogProtocol ==
    [][/\ op' = "clickInsert" =>
            \/ /\ ret' = "true"
               /\ focus' = "editor"
               /\ \E j \in 1..Len(dialogs) :
                     /\ dialogs[j].content = call'.content
                     /\ dialogs' = Without(dialogs, j)
            \/ /\ ret' # "true"
               /\ dialogs' = dialogs
               /\ focus' = focus
       /\ op' \in {"clickCancel", "clickOverlay"} =>
            /\ \E j \in 1..Len(dialogs) : dialogs' = Without(dialogs, j)
            /\ focus' = "editor"
            /\ doc' = doc]_vars

\* Insert put the dialog's quote into the document and closed the dialog,
\* while another dialog is still open
C30_Witness ==
    /\ op = "clickInsert"
    /\ ret = "true"
    /\ Len(dialogs) = 1
    /\ focus = "editor"
    /\ \E j \in 1..Len(doc) : doc[j].kind = "quote"

====
